---- MODULE Spec2Model ----
(***************************************************************************)
(* Model of the LissajousGenerator component (client/src/pages/            *)
(* lissajous.tsx): the animation scheduler built from the `render`         *)
(* callback and the "start animation" effect, the frame-rate counter, the  *)
(* parameter state the callbacks close over, the sampler                   *)
(* generateLissajousPoints, the frequency ratio, and the audio feature:    *)
(* the audio refs, the nodes the host keeps for them, startAudio,          *)
(* stopAudio, updateAudioParams and its effect, and the effect cleanup     *)
(* that releases the audio.                                                *)
(*                                                                         *)
(* Specifications:                                                         *)
(*  - Spec: the component with time passing, parameter changes, ticks and  *)
(*    the play button;                                                     *)
(*  - SpecAudio: the component with all its audio controls and a host that *)
(*    can throw in the audio calls, without the clock;                     *)
(*  - SpecPlayback: the audio controls with a host that lets a second      *)
(*    context be created after a close, without ticks;                     *)
(*  - SpecRender: render() on trail lengths from 0 to MaxTrail;            *)
(*  - SpecSampler: generateLissajousPoints on slider values and elapsed    *)
(*    times;                                                               *)
(*  - SpecRatio: getFrequencyRatio on every pair of slider frequencies;    *)
(*  - SpecPattern: getPatternInfo on slider frequencies and phases.        *)
(*                                                                         *)
(* React semantics used by the model:                                      *)
(*  - a state setter commits a new value; every useCallback whose deps     *)
(*    changed gets a new identity, and an effect whose deps changed is     *)
(*    queued: its cleanup and body run later, in one flush;                *)
(*  - a callback closes over the state of the commit that created it;      *)
(*  - refs are mutable cells shared by all closures;                       *)
(*  - on unmount the canvas ref is detached at commit, the effect cleanup  *)
(*    runs in the following flush.                                         *)
(***************************************************************************)
EXTENDS Integers, Sequences, FiniteSets, TLC

\* ---------------------------------------------------------------- bounds
MaxTime == 2002
MaxHandles == 3
MaxChanges == 1
MaxContexts == 1
MaxTrail == 3

\* Date.now() advances by one of these amounts between two steps.
ClockSteps == {1000, 1001}

\* ------------------------------------------------------ program constants
FpsWindow == 1000
Null == 0
FreqMin == 100
FreqMax == 5000
FreqStep == 100

\* One turn (2 * Math.PI) in angle units: with frequencies, speeds and
\* milliseconds integral and phases in whole degrees, every angle the sampler
\* forms is a whole number of these units.
TurnUnits == 9000000

\* Values the sliders and switches can take (a subset of each range).
LeftFreqs == {1000, 2000}
RightFreqs == {1000, 2000}
PhaseDegs == {90, 0}
AnimationSpeeds == {1, 2}
TrailLengths == {8192, 1000}

\* volume, in tenths (the slider runs from 0 to 1 in steps of 0.1).
Volumes == {3, 5}

\* Where the host can make a call of initializeAudio, startAudio or
\* updateAudioParams throw ("none": nowhere).
InitFailures == {"none", "context", "masterGain"}
StartFailures == {"none", "create", "configure"}
UpdateFailures == {"none", "frequency", "gain"}

ParamNames ==
  {"leftFreq", "rightFreq", "phaseDeg", "animationSpeed", "trailLength",
   "showGrid", "showAxes"}

ParamValues(f) ==
  CASE f = "leftFreq" -> LeftFreqs
    [] f = "rightFreq" -> RightFreqs
    [] f = "phaseDeg" -> PhaseDegs
    [] f = "animationSpeed" -> AnimationSpeeds
    [] f = "trailLength" -> TrailLengths
    [] f = "showGrid" -> BOOLEAN
    [] f = "showAxes" -> BOOLEAN

\* presetPatterns: the (leftFreq, rightFreq, phase) of the four presets.
PresetPatterns ==
  {[name |-> "Circle", leftFreq |-> 1000, rightFreq |-> 1000, phase |-> 90],
   [name |-> "Figure-8", leftFreq |-> 1000, rightFreq |-> 2000, phase |-> 0],
   [name |-> "3-Loop", leftFreq |-> 1000, rightFreq |-> 3000, phase |-> 45],
   [name |-> "Star", leftFreq |-> 1000, rightFreq |-> 2500, phase |-> 30]}

\* The preset buttons that get clicked (a subset of the four): the one equal
\* to the initial parameters and one with values no slider value above has.
ClickedPresets == {preset \in PresetPatterns : preset.name \in {"Circle", "Star"}}

InitialParams ==
  [leftFreq |-> 1000, rightFreq |-> 1000, phaseDeg |-> 90,
   animationSpeed |-> 1, trailLength |-> 8192,
   showGrid |-> TRUE, showAxes |-> TRUE]

VARIABLES
  now,                \* Date.now()
  params,             \* the committed useState values of the pattern parameters
  canvasRef,          \* TRUE when canvasRef.current is the canvas element
  animationFrameRef,  \* animationFrameRef.current (Null = undefined)
  startTimeRef,       \* startTimeRef.current
  frameCountRef,      \* frameCountRef.current
  lastFPSUpdateRef,   \* lastFPSUpdateRef.current
  fps,                \* the fps state published by setFps
  pending,            \* host: the scheduled animation-frame callbacks
  nextHandle,         \* host: the next requestAnimationFrame handle
  effectActive,       \* the animation effect has run and its cleanup is registered
  effectQueued,       \* "none", "mount", "update" or "unmount": the queued effect work
  changes,            \* number of parameter changes committed so far
  audioContextRef,    \* audioContextRef.current (Null or a context id)
  masterGainRef,      \* masterGainRef.current (Null or the id of its context)
  leftOscillatorRef,  \* leftOscillatorRef.current (Null or a node id)
  rightOscillatorRef, \* rightOscillatorRef.current
  leftGainRef,        \* leftGainRef.current
  rightGainRef,       \* rightGainRef.current
  isMuted,            \* the committed useState value isMuted
  volume,             \* the committed useState value volume, in tenths
  audioEffectQueued,  \* TRUE when the updateAudioParams effect is queued
  oscConnected,       \* host: oscillators with an outgoing connection
  gainConnected,      \* host: channel gain nodes with an outgoing connection
  gainChannel,        \* host: the merger input each connected channel gain node feeds
  oscStartedAt,       \* host: the `when` of start() of every running oscillator, in ms after the call
  oscFrequency,       \* host: frequency.value of every oscillator created
  gainValue,          \* host: gain.value of every channel gain node created, in thousandths
  isPlaying,          \* useState isPlaying
  oscRunning,         \* host: oscillator nodes started and not stopped
  openContexts,       \* host: audio contexts created and not closed
  nextContext,        \* host: numbers the audio contexts created
  last,               \* observer: what the step just taken did
  framesSinceRefresh, \* observer: frames rendered and counted since the last refresh callback
  lastPublishedAt,    \* observer: time of the last setFps call (-1: none yet)
  windowFrames,       \* observer: frames rendered since the last setFps or effect start
  windowStart,        \* observer: time of the last setFps or effect start
  probe               \* a call of a pure function: its arguments and its result

schedVars ==
  <<animationFrameRef, startTimeRef, frameCountRef, lastFPSUpdateRef, fps,
    pending, nextHandle>>

audioRefs ==
  <<audioContextRef, masterGainRef, leftOscillatorRef, rightOscillatorRef,
    leftGainRef, rightGainRef>>

audioGraph ==
  <<oscConnected, gainConnected, gainChannel, oscStartedAt, oscFrequency,
    gainValue>>

audioVars ==
  <<audioRefs, isPlaying, oscRunning, openContexts, nextContext, isMuted, volume,
    audioGraph>>

vars ==
  <<now, params, canvasRef, schedVars, effectActive, effectQueued, changes,
    audioVars, audioEffectQueued, last, framesSinceRefresh, lastPublishedAt, windowFrames,
    windowStart, probe>>

observerVars == <<framesSinceRefresh, lastPublishedAt, windowFrames, windowStart>>

\* -------------------------------------------------------------- sampler

\* Mutant of Sin: the angle reduced to one turn, taken for its sine.
SinUnfolded(a) == a % TurnUnits

\* Math.sin of an angle given in angle units.  The value is coded by the
\* angle of the first or fourth quadrant that has the same sine: the code
\* runs from -TurnUnits/4 (sine -1) to TurnUnits/4 (sine 1) and grows with
\* the sine, so two sines are equal exactly when their codes are.
Sin(a) ==
  LET m == a % TurnUnits
      quarter == TurnUnits \div 4
  IN IF m <= quarter THEN m
     ELSE IF m <= 3 * quarter THEN 2 * quarter - m
     ELSE m - TurnUnits

\* 2 * Math.PI * freq * t / 1000 for t = ms * 0.001 * speed, in angle units:
\* freq * speed * ms / 10^6 turns.
FreqAngle(freq, speed, ms) == (TurnUnits \div 1000000) * ((freq * speed * ms) % 1000000)

\* phaseDeg * Math.PI / 180 in angle units.
PhaseAngle(deg) == deg * (TurnUnits \div 360)

\* The point pushed at index i, `elapsed` ms after startTimeRef.
PointAt(p, elapsed, i) ==
  [x |-> Sin(FreqAngle(p.rightFreq, p.animationSpeed, elapsed + i)),
   y |-> Sin(FreqAngle(p.leftFreq, p.animationSpeed, elapsed + i)
             + PhaseAngle(p.phaseDeg))]

\* The loop of generateLissajousPoints: for (i = 0; i < numPoints; i++) push.
RECURSIVE SamplePoints(_, _, _, _, _)
SamplePoints(p, elapsed, i, numPoints, points) ==
  IF i < numPoints
  THEN SamplePoints(p, elapsed, i + 1, numPoints,
                    Append(points, PointAt(p, elapsed, i)))
  ELSE points

\* generateLissajousPoints(numPoints) called at time t with startTimeRef =
\* origin: a fresh array, filled by the loop.
GenerateLissajousPoints(p, origin, t, numPoints) ==
  SamplePoints(p, t - origin, 0, numPoints, <<>>)

\* ------------------------------------------------------------- renderer

\* drawPattern calls generateLissajousPoints(trailLength): the number of
\* points asked for.
NumPoints(p) == p.trailLength

\* The first MaxTrail points drawPattern gets (all of them when trailLength
\* is at most MaxTrail).
TrailHead(p, origin, t) ==
  GenerateLissajousPoints(p, origin, t,
                          IF NumPoints(p) < MaxTrail THEN NumPoints(p) ELSE MaxTrail)

\* drawGrid: returns at once unless showGrid.
GridPass(p) == IF p.showGrid THEN <<"grid">> ELSE <<>>

\* drawAxes: returns at once unless showAxes.
AxesPass(p) == IF p.showAxes THEN <<"axes">> ELSE <<>>

\* Mutant of PatternPass: no test of the number of points.
PatternPassUnguarded(p) == <<"trail", "marker">>

\* drawPattern: nothing is drawn with fewer than 2 points; otherwise the
\* trail polyline and then the leading marker.
PatternPass(p) == IF NumPoints(p) < 2 THEN <<>> ELSE <<"trail", "marker">>

\* Mutant of Passes: the axes are drawn before the grid.
PassesAxesFirst(p) == <<"clear">> \o AxesPass(p) \o GridPass(p) \o PatternPass(p)

\* The drawing calls of one render(), in the order they are issued.
Passes(p) == <<"clear">> \o GridPass(p) \o AxesPass(p) \o PatternPass(p)

\* Math.round of the non-negative quotient a / b (round half up).
Round(a, b) == (2 * a + b) \div (2 * b)

\* Mutant of ShouldPublish: the comparison is >= instead of >.
ShouldPublishAtWindow(t, lastUpdate) == t - lastUpdate >= FpsWindow

\* The test of the FPS counter: more than a second since the last update.
ShouldPublish(t, lastUpdate) == t - lastUpdate > FpsWindow

\* requestAnimationFrame(render): the host queues the callback under a fresh
\* handle; the callback is the render closure, which carries its parameters.
RequestAnimationFrame(pend, handle, p) == pend \cup {[id |-> handle, snap |-> p]}

\* Mutant of CancelAnimationFrame: the cancellation has no effect.
CancelNothing(pend, handle) == pend

\* cancelAnimationFrame(handle): the host drops the callback with that handle.
CancelAnimationFrame(pend, handle) == {c \in pend : c.id # handle}

\* One call of the `render` closure created for parameters p, against the
\* pending set pend; ctxOk says whether getContext('2d') returns a context.
\* The result holds the new values of everything render() writes.
RenderResult(p, ctxOk, pend) ==
  IF ~canvasRef \/ ~ctxOk
  THEN [drew |-> FALSE, passes |-> <<>>, published |-> FALSE, armed |-> 0,
        frameCount |-> frameCountRef, lastFPSUpdate |-> lastFPSUpdateRef,
        fps |-> fps, handle |-> animationFrameRef, pending |-> pend,
        nextHandle |-> nextHandle]
  ELSE LET count == frameCountRef + 1
           publish == ShouldPublish(now, lastFPSUpdateRef)
       IN [drew |-> TRUE, passes |-> Passes(p), published |-> publish, armed |-> 1,
           frameCount |-> IF publish THEN 0 ELSE count,
           lastFPSUpdate |-> IF publish THEN now ELSE lastFPSUpdateRef,
           fps |-> IF publish
                   THEN Round(count * 1000, now - lastFPSUpdateRef)
                   ELSE fps,
           handle |-> nextHandle,
           pending |-> RequestAnimationFrame(pend, nextHandle, p),
           nextHandle |-> nextHandle + 1]

\* What the refs held when an audio operation began.
Held ==
  [left |-> leftOscillatorRef, right |-> rightOscillatorRef,
   leftGain |-> leftGainRef, rightGain |-> rightGainRef,
   context |-> audioContextRef]

\* The part of `last` about audio: whether an audio call threw and, for a
\* step that ran the effect cleanup, whether isPlaying was set and what the
\* refs held when it began, and the statements it executed, in order.
NoAudioNote ==
  [failed |-> FALSE, wasPlaying |-> FALSE,
   held |-> [left |-> Null, right |-> Null, leftGain |-> Null,
             rightGain |-> Null, context |-> Null],
   cleanup |-> <<>>]

AudioNote(failed) == [NoAudioNote EXCEPT !.failed = failed]

CleanupNote(failed, cleanup) ==
  [failed |-> failed, wasPlaying |-> isPlaying, held |-> Held,
   cleanup |-> cleanup]

\* The record kept in `last` for a step that called render(): what the call
\* used and did, the window and count its FPS test saw, and the same window
\* and count as measured from the latest setFps or effect start (frames0
\* frames since then before this call, start0 its time).
Observed(op, p, viaCallback, r, cancelled, frames0, start0) ==
  [op |-> op, rendered |-> TRUE, viaCallback |-> viaCallback, used |-> p,
   drew |-> r.drew, passes |-> r.passes, published |-> r.published,
   numPoints |-> IF r.drew THEN NumPoints(p) ELSE 0,
   armed |-> r.armed, cancelled |-> cancelled,
   window |-> now - lastFPSUpdateRef, counted |-> frameCountRef + 1,
   sincePublish |-> IF lastPublishedAt < 0 THEN -1 ELSE now - lastPublishedAt,
   framesInWindow |-> frames0 + 1, sinceWindowStart |-> now - start0,
   audio |-> NoAudioNote]

\* The record kept in `last` for a step that did not call render().
Quiet(op, cancelled) ==
  [op |-> op, rendered |-> FALSE, viaCallback |-> FALSE, used |-> params,
   drew |-> FALSE, passes |-> <<>>, published |-> FALSE, armed |-> 0,
   numPoints |-> 0,
   cancelled |-> cancelled, window |-> 0, counted |-> 0, sincePublish |-> -1,
   framesInWindow |-> 0, sinceWindowStart |-> 0, audio |-> NoAudioNote]

\* The observer's window bookkeeping after a call of render().
ObserveWindow(r, frames0, start0) ==
  /\ lastPublishedAt' = IF r.published THEN now ELSE lastPublishedAt
  /\ windowFrames' = IF r.published THEN 0
                     ELSE IF r.drew THEN frames0 + 1 ELSE frames0
  /\ windowStart' = IF r.published THEN now ELSE start0

\* The writes of render() applied to the scheduler state.
ApplyRender(r) ==
  /\ frameCountRef' = r.frameCount
  /\ lastFPSUpdateRef' = r.lastFPSUpdate
  /\ fps' = r.fps
  /\ animationFrameRef' = r.handle
  /\ pending' = r.pending
  /\ nextHandle' = r.nextHandle

\* ------------------------------------------------------ effect queueing

\* Mutant of RenderDeps: render also depends on the audio state.
RenderDepsWithAudio ==
  {"leftFreq", "rightFreq", "phaseDeg", "animationSpeed", "trailLength",
   "showGrid", "showAxes", "isPlaying", "isMuted", "volume"}

\* The state values the identity of `render` depends on, through the
\* dependency lists of generateLissajousPoints, drawGrid, drawAxes,
\* drawPattern and render.
RenderDeps ==
  {"leftFreq", "rightFreq", "phaseDeg", "animationSpeed", "trailLength",
   "showGrid", "showAxes"}

\* The dependency list of updateAudioParams.
UpdateAudioParamsDeps == {"leftFreq", "rightFreq", "volume", "isMuted", "isPlaying"}

\* The animation effect (dependencies render, stopAudio) after a commit that
\* changed the state values `changed`, `queued` being what was queued before.
AnimationEffectAfter(queued, changed) ==
  IF queued = "none" /\ changed \cap RenderDeps # {} THEN "update" ELSE queued

\* The updateAudioParams effect after a commit that changed `changed`.
AudioEffectAfter(queued, changed) ==
  queued \/ changed \cap UpdateAudioParamsDeps # {}

\* ---------------------------------------------------------------- audio

\* Mutant of BaseGain: isMuted is not looked at.
BaseGainUnmuted(muted, vol) == vol * 10

\* const baseGain = isMuted ? 0 : volume * 0.1, in thousandths.
BaseGain(muted, vol) == IF muted THEN 0 ELSE vol * 10

\* initializeAudio, entered from startAudio when no context is held: a new
\* context and its master gain node (both named k).  `fail` tells where the
\* host throws: at the constructor, or at a later statement with the context
\* already stored and no master gain node yet.
InitializeAudio(k, fail) ==
  [context |-> IF fail = "context" THEN Null ELSE k,
   masterGain |-> IF fail = "none" THEN k ELSE masterGainRef,
   open |-> IF fail = "context" THEN openContexts ELSE openContexts \cup {k}]

\* The map f without the nodes `dropped` (nodes stopped or disconnected and
\* no longer held, which the host can collect).
Without(f, dropped) == [n \in DOMAIN f \ dropped |-> f[n]]

\* The number of a pair of nodes not in use: nodes 2p+1 and 2p+2 make pair
\* p, and a node is in use while it is running.  (A node that is neither
\* running nor held can no longer act and is forgotten.)
FreshPair ==
  LET free == {p \in 1..(Cardinality(oscRunning) + 1) :
                 {2 * p + 1, 2 * p + 2} \cap oscRunning = {}}
  IN CHOOSE p \in free : \A q \in free : p <= q

\* const now = audioContextRef.current.currentTime; left.start(now);
\* right.start(now): when each of the two oscillators starts, in ms after
\* that reading of currentTime.
StartTimes(left, right) == (left :> 0) @@ (right :> 0)

\* Mutant of MergerInputs: the two channels are exchanged.
MergerInputsSwapped(left, right) == (left :> 1) @@ (right :> 0)

\* leftGain.connect(merger, 0, 0) and rightGain.connect(merger, 0, 1): the
\* merger input each of the two channel gain nodes feeds.
MergerInputs(left, right) == (left :> 0) @@ (right :> 1)

\* The first statements of startAudio: what initializeAudio, if called,
\* leaves in the refs, and how far the rest gets: "return" at the test of
\* the refs, a throw at "create", "configure" or "connect", or "none".
StartPlan(initFail, startFail) ==
  LET init == IF audioContextRef = Null
              THEN InitializeAudio(nextContext, initFail)
              ELSE [context |-> audioContextRef, masterGain |-> masterGainRef,
                    open |-> openContexts]
  IN [init |-> init,
      fail |-> IF init.context = Null \/ init.masterGain = Null THEN "return"
               ELSE IF startFail = "none" /\ init.masterGain # init.context
                    THEN "connect"
                    ELSE startFail]

\* startAudio: make sure a context is held, then build, configure, wire and
\* start a fresh pair of oscillators and gain nodes and set isPlaying.
\* `startFail` tells where the host throws: "create" at the first create
\* call, "configure" at the first setValueAtTime, with the four nodes stored
\* in their refs.  Connecting to a master gain node of another context than
\* the one held throws too, with everything configured and nothing started.
StartAudio(initFail, startFail) ==
  LET k == nextContext
      init == StartPlan(initFail, startFail).init
      proceeds == init.context # Null /\ init.masterGain # Null
      fail == StartPlan(initFail, startFail).fail
      stored == fail \in {"configure", "connect", "none"}
      configured == fail \in {"connect", "none"}
      wired == fail \in {"connect", "none"}
      left == 2 * FreshPair + 1
      right == 2 * FreshPair + 2
      forgotten == {leftOscillatorRef, rightOscillatorRef} \ oscRunning
  IN /\ audioContextRef # Null => initFail = "none"
     /\ ~proceeds => startFail = "none"
     /\ audioContextRef' = init.context
     /\ masterGainRef' = init.masterGain
     /\ openContexts' = init.open
     /\ leftOscillatorRef' = IF stored THEN left ELSE leftOscillatorRef
     /\ rightOscillatorRef' = IF stored THEN right ELSE rightOscillatorRef
     /\ leftGainRef' = IF stored THEN left ELSE leftGainRef
     /\ rightGainRef' = IF stored THEN right ELSE rightGainRef
     /\ oscFrequency' =
          IF ~stored THEN oscFrequency
          ELSE IF configured
               THEN (left :> params.leftFreq) @@ (right :> params.rightFreq)
                    @@ Without(oscFrequency, forgotten)
               ELSE (left :> 440) @@ (right :> 440)
                    @@ Without(oscFrequency, forgotten)
     /\ gainValue' =
          IF ~stored THEN gainValue
          ELSE IF configured
               THEN (left :> BaseGain(isMuted, volume))
                    @@ (right :> BaseGain(isMuted, volume))
                    @@ Without(gainValue, forgotten)
               ELSE (left :> 1000) @@ (right :> 1000)
                    @@ Without(gainValue, forgotten)
     /\ oscConnected' = IF wired THEN (oscConnected \ forgotten) \cup {left, right}
                        ELSE IF stored THEN oscConnected \ forgotten
                        ELSE oscConnected
     /\ gainConnected' = IF wired THEN (gainConnected \ forgotten) \cup {left, right}
                         ELSE IF stored THEN gainConnected \ forgotten
                         ELSE gainConnected
     /\ gainChannel' = IF wired THEN MergerInputs(left, right)
                                     @@ Without(gainChannel, forgotten)
                       ELSE IF stored THEN Without(gainChannel, forgotten)
                       ELSE gainChannel
     /\ oscRunning' = IF fail = "none" THEN oscRunning \cup {left, right}
                      ELSE oscRunning
     /\ oscStartedAt' = IF fail = "none"
                        THEN StartTimes(left, right) @@ oscStartedAt
                        ELSE oscStartedAt
     /\ isPlaying' = IF fail = "none" THEN TRUE ELSE isPlaying
     /\ nextContext' = IF init.context # audioContextRef THEN k + 1
                       ELSE nextContext

\* Whether startAudio, called with these failures, throws (or initializeAudio
\* does).
StartAudioFails(initFail, startFail) ==
  \/ audioContextRef = Null /\ initFail # "none"
  \/ StartPlan(initFail, startFail).fail \notin {"return", "none"}

\* Mutant of StopAudio: the refs are cleared and isPlaying is set to false
\* with the oscillators left running.
StopAudioDropsRefs ==
  /\ leftOscillatorRef' = Null
  /\ rightOscillatorRef' = Null
  /\ leftGainRef' = Null
  /\ rightGainRef' = Null
  /\ isPlaying' = FALSE
  /\ UNCHANGED <<oscRunning, audioGraph>>

\* Mutant of StopAudio: the channel gain nodes are left connected and held.
StopAudioOscillatorsOnly ==
  /\ oscRunning' = oscRunning \ {leftOscillatorRef, rightOscillatorRef}
  /\ oscConnected' = oscConnected \ {leftOscillatorRef, rightOscillatorRef}
  /\ leftOscillatorRef' = Null
  /\ rightOscillatorRef' = Null
  /\ oscFrequency' = Without(oscFrequency, {leftOscillatorRef, rightOscillatorRef})
  /\ isPlaying' = FALSE
  /\ oscStartedAt' = Without(oscStartedAt, {leftOscillatorRef, rightOscillatorRef})
  /\ UNCHANGED <<leftGainRef, rightGainRef, gainConnected, gainChannel,
                 gainValue>>

\* stopAudio: stop and disconnect whatever the refs hold, clear the refs and
\* set isPlaying to false.  stop() throws on an oscillator that was never
\* started; the catch then leaves the rest of the body undone.
StopAudio ==
  LET leftThrows == leftOscillatorRef # Null /\ leftOscillatorRef \notin oscRunning
      rightThrows == rightOscillatorRef # Null /\ rightOscillatorRef \notin oscRunning
      leftDone == ~leftThrows
      allDone == ~leftThrows /\ ~rightThrows
      stopped == IF allDone THEN {leftOscillatorRef, rightOscillatorRef}
                 ELSE IF leftDone THEN {leftOscillatorRef} ELSE {}
  IN /\ oscRunning' = oscRunning \ stopped
     /\ oscStartedAt' = Without(oscStartedAt, stopped)
     /\ oscConnected' = oscConnected \ stopped
     /\ leftOscillatorRef' = IF leftDone THEN Null ELSE leftOscillatorRef
     /\ rightOscillatorRef' = IF allDone THEN Null ELSE rightOscillatorRef
     /\ gainConnected' = IF allDone THEN gainConnected \ {leftGainRef, rightGainRef}
                         ELSE gainConnected
     /\ gainChannel' = IF allDone
                       THEN Without(gainChannel, {leftGainRef, rightGainRef})
                       ELSE gainChannel
     /\ leftGainRef' = IF allDone THEN Null ELSE leftGainRef
     /\ rightGainRef' = IF allDone THEN Null ELSE rightGainRef
     /\ oscFrequency' = Without(oscFrequency, stopped)
     /\ gainValue' = IF allDone THEN Without(gainValue, {leftGainRef, rightGainRef})
                     ELSE gainValue
     /\ isPlaying' = IF allDone THEN FALSE ELSE isPlaying

\* Whether stopAudio throws.
StopAudioFails ==
  \/ leftOscillatorRef # Null /\ leftOscillatorRef \notin oscRunning
  \/ rightOscillatorRef # Null /\ rightOscillatorRef \notin oscRunning

\* toggleAudio (the play button), the host failing as the two arguments say.
ToggleAudioWith(initFail, startFail) ==
  /\ canvasRef
  /\ IF isPlaying
     THEN /\ initFail = "none" /\ startFail = "none"
          /\ StopAudio
          /\ UNCHANGED <<audioContextRef, masterGainRef, openContexts, nextContext>>
          /\ last' = [Quiet("ToggleAudio", 0) EXCEPT
                        !.audio = AudioNote(StopAudioFails)]
     ELSE /\ StartAudio(initFail, startFail)
          /\ last' = [Quiet("ToggleAudio", 0) EXCEPT
                        !.audio = AudioNote(StartAudioFails(initFail, startFail))]
  /\ LET changed == IF isPlaying' # isPlaying THEN {"isPlaying"} ELSE {}
     IN /\ effectQueued' = AnimationEffectAfter(effectQueued, changed)
        /\ audioEffectQueued' = AudioEffectAfter(audioEffectQueued, changed)
  /\ UNCHANGED <<now, params, canvasRef, schedVars, effectActive, changes,
                 isMuted, volume, observerVars, probe>>

\* The host has created fewer than `bound` audio contexts, or one is held:
\* the play button can be pressed without a context beyond the bound.
ContextsLeft(bound) == audioContextRef = Null => nextContext <= bound

\* toggleAudio with no failure of the host chosen.
ToggleAudio == ToggleAudioWith("none", "none")

\* toggleAudio with the host failing in initializeAudio or startAudio.
ToggleAudioFailing ==
  \E initFail \in InitFailures : \E startFail \in StartFailures :
    /\ ~isPlaying
    /\ initFail # "none" \/ startFail # "none"
    /\ ToggleAudioWith(initFail, startFail)

\* toggleMute (the mute button): setIsMuted(!isMuted).  React runs the effect
\* work already queued before it renders a new update.
ToggleMute ==
  /\ canvasRef
  /\ effectQueued = "none"
  /\ ~audioEffectQueued
  /\ isMuted' = ~isMuted
  /\ effectQueued' = AnimationEffectAfter(effectQueued, {"isMuted"})
  /\ audioEffectQueued' = AudioEffectAfter(audioEffectQueued, {"isMuted"})
  /\ last' = [Quiet("ToggleMute", 0) EXCEPT !.audio = AudioNote(FALSE)]
  /\ UNCHANGED <<now, params, canvasRef, schedVars, effectActive, changes,
                 audioRefs, isPlaying, oscRunning, openContexts, nextContext,
                 volume, audioGraph, observerVars, probe>>

\* The volume slider: setVolume(v).
SetVolume(v) ==
  /\ canvasRef
  /\ effectQueued = "none"
  /\ ~audioEffectQueued
  /\ v # volume
  /\ volume' = v
  /\ effectQueued' = AnimationEffectAfter(effectQueued, {"volume"})
  /\ audioEffectQueued' = AudioEffectAfter(audioEffectQueued, {"volume"})
  /\ last' = [Quiet("SetVolume", 0) EXCEPT !.audio = AudioNote(FALSE)]
  /\ UNCHANGED <<now, params, canvasRef, schedVars, effectActive, changes,
                 audioRefs, isPlaying, oscRunning, openContexts, nextContext,
                 isMuted, audioGraph, observerVars, probe>>

\* Whether updateAudioParams gets past its first test.
UpdateAudioParamsActs == audioContextRef # Null /\ isPlaying

\* updateAudioParams: set the frequency of the oscillators held and the gain
\* of the channel gain nodes held.  `fail` tells where the host throws: at
\* the first frequency.setValueAtTime, or at the first gain.setValueAtTime,
\* the frequencies set.
UpdateAudioParams(fail) ==
  LET setFrequency == UpdateAudioParamsActs /\ fail # "frequency"
      setGain == UpdateAudioParamsActs /\ fail = "none"
      freqs == (IF leftOscillatorRef # Null
                THEN (leftOscillatorRef :> params.leftFreq) ELSE <<>>)
               @@ (IF rightOscillatorRef # Null
                   THEN (rightOscillatorRef :> params.rightFreq) ELSE <<>>)
      gains == (IF leftGainRef # Null
                THEN (leftGainRef :> BaseGain(isMuted, volume)) ELSE <<>>)
               @@ (IF rightGainRef # Null
                   THEN (rightGainRef :> BaseGain(isMuted, volume)) ELSE <<>>)
  IN /\ ~UpdateAudioParamsActs => fail = "none"
     /\ oscFrequency' = IF setFrequency THEN freqs @@ oscFrequency ELSE oscFrequency
     /\ gainValue' = IF setGain THEN gains @@ gainValue ELSE gainValue

\* The queued updateAudioParams effect runs, the animation effect not being
\* queued with it; the host fails as `fail` says.
FlushAudioEffectWith(fail) ==
  /\ audioEffectQueued
  /\ effectQueued = "none"
  /\ UpdateAudioParams(fail)
  /\ last' = [Quiet("UpdateAudioParams", 0) EXCEPT
                !.audio = AudioNote(fail # "none")]
  /\ audioEffectQueued' = FALSE
  /\ UNCHANGED <<now, params, canvasRef, schedVars, effectActive, effectQueued,
                 changes, audioRefs, isPlaying, oscRunning, openContexts,
                 nextContext, isMuted, volume, oscConnected, gainConnected,
                 gainChannel, oscStartedAt, observerVars, probe>>

\* The updateAudioParams effect with the host not failing.
FlushAudioEffect == FlushAudioEffectWith("none")

\* The updateAudioParams effect with the host failing.
FlushAudioEffectFailing ==
  \E fail \in UpdateFailures \ {"none"} : FlushAudioEffectWith(fail)

\* ------------------------------------------------ the animation effect

\* Mutant of CleanupPending: the cleanup does not cancel the pending callback.
CleanupPendingSkipped(pend) == pend

\* Cleanup, first statement: cancel the handle held in animationFrameRef,
\* if it holds one.  `pend` is the pending set the cleanup finds.
CleanupPending(pend) ==
  IF animationFrameRef # Null
  THEN CancelAnimationFrame(pend, animationFrameRef)
  ELSE pend

\* Mutant of CloseContext: the context is dropped without being closed.
CloseContextSkipped(open, context) == open

\* audioContextRef.current.close(), if a context is held (Null is no
\* context): the host's open contexts afterwards.
CloseContext(open, context) == open \ {context}

\* Cleanup, the rest: stopAudio(), then close and drop the audio context.
CleanupAudio ==
  /\ StopAudio
  /\ openContexts' = CloseContext(openContexts, audioContextRef)
  /\ audioContextRef' = Null
  /\ UNCHANGED <<masterGainRef, nextContext>>

\* Mutant of CleanupOrder: the audio is released before the callback is
\* cancelled.
CleanupOrderAudioFirst == <<"stopAudio", "close", "cancelAnimationFrame">>

\* The statements of the cleanup, in the order of the source.
CleanupOrder == <<"cancelAnimationFrame", "stopAudio", "close">>

\* Whether the cleanup executes one of its statements in the current state.
CleanupExecutes(statement) ==
  CASE statement = "cancelAnimationFrame" -> animationFrameRef # Null
    [] statement = "stopAudio" -> TRUE
    [] statement = "close" -> audioContextRef # Null

\* The statements a cleanup executes in the current state, in order.
CleanupLog == SelectSeq(CleanupOrder, CleanupExecutes)

\* Effect body: startTimeRef.current = Date.now(); render().
\* `pend` is the pending set the body finds, `note` the audio part of the
\* observation.
StartAnimation(op, ctxOk, pend, note) ==
  LET r == RenderResult(params, ctxOk, pend)
  IN /\ nextHandle <= MaxHandles
     /\ startTimeRef' = now
     /\ ApplyRender(r)
     /\ last' = [Observed(op, params, FALSE, r,
                          Cardinality(pending) - Cardinality(pend), 0, now)
                 EXCEPT !.audio = note]
     /\ framesSinceRefresh' = framesSinceRefresh + (IF r.drew THEN 1 ELSE 0)
     /\ ObserveWindow(r, 0, now)

\* The effects run for the first time after the component has mounted:
\* updateAudioParams(), then the body of the animation effect.
MountEffect ==
  /\ effectQueued = "mount"
  /\ UpdateAudioParams("none")
  /\ \E ctxOk \in BOOLEAN : StartAnimation("Mount", ctxOk, pending, NoAudioNote)
  /\ effectActive' = TRUE
  /\ effectQueued' = "none"
  /\ audioEffectQueued' = FALSE
  /\ UNCHANGED <<now, params, canvasRef, changes, audioRefs, isPlaying,
                 oscRunning, openContexts, nextContext, isMuted, volume,
                 oscConnected, gainConnected, gainChannel, oscStartedAt, probe>>

\* A dependency (render) changed: the cleanup of the previous run, then the
\* effect bodies, in one flush.  updateAudioParams(), if queued too, runs
\* after the cleanup has dropped the context and returns at its first test.
\* The cleanup's setIsPlaying(false) is a new commit.
RerunEffect ==
  /\ effectQueued = "update"
  /\ CleanupAudio
  /\ \E ctxOk \in BOOLEAN :
       StartAnimation("Rerun", ctxOk, CleanupPending(pending),
                      CleanupNote(StopAudioFails, CleanupLog))
  /\ effectActive' = TRUE
  /\ LET changed == IF isPlaying' # isPlaying THEN {"isPlaying"} ELSE {}
     IN /\ effectQueued' = AnimationEffectAfter("none", changed)
        /\ audioEffectQueued' = AudioEffectAfter(FALSE, changed)
  /\ UNCHANGED <<now, params, canvasRef, changes, isMuted, volume, probe>>

\* The component unmounts: React detaches the canvas ref at commit and
\* queues the cleanup of the effect.
Unmount ==
  /\ effectActive
  /\ effectQueued = "none"
  /\ ~audioEffectQueued
  /\ canvasRef
  /\ canvasRef' = FALSE
  /\ effectQueued' = "unmount"
  /\ last' = Quiet("Unmount", 0)
  /\ UNCHANGED <<now, params, schedVars, effectActive, changes, audioVars,
                 audioEffectQueued, observerVars, probe>>

\* The queued cleanup of the unmounted component runs.
UnmountCleanup ==
  /\ effectQueued = "unmount"
  /\ pending' = CleanupPending(pending)
  /\ CleanupAudio
  /\ effectActive' = FALSE
  /\ effectQueued' = "none"
  /\ last' = [Quiet("Cleanup", Cardinality(pending) - Cardinality(CleanupPending(pending)))
              EXCEPT !.audio = CleanupNote(StopAudioFails, CleanupLog)]
  /\ UNCHANGED <<now, params, canvasRef, animationFrameRef, startTimeRef,
                 frameCountRef, lastFPSUpdateRef, fps, nextHandle, changes,
                 isMuted, volume, audioEffectQueued, observerVars, probe>>

\* ------------------------------------------------------ parameter source

\* A slider or switch calls its state setter with a new value.  The
\* callbacks that depend on it (up to `render`) get a new identity at the
\* commit, so the animation effect, which depends on `render`, is queued.
SetParam(f, v) ==
  /\ canvasRef
  /\ effectActive
  /\ effectQueued = "none"
  /\ ~audioEffectQueued
  /\ changes < MaxChanges
  /\ v # params[f]
  /\ params' = [params EXCEPT ![f] = v]
  /\ effectQueued' = AnimationEffectAfter(effectQueued, {f})
  /\ audioEffectQueued' = AudioEffectAfter(audioEffectQueued, {f})
  /\ changes' = changes + 1
  /\ last' = [Quiet("SetParam", 0) EXCEPT !.used = params']
  /\ UNCHANGED <<now, canvasRef, schedVars, effectActive, audioVars,
                 observerVars, probe>>

\* handlePresetClick: the three setters are called in one event, hence one
\* commit.  (activePreset only labels the buttons and is not modelled.)
PresetClick(preset) ==
  LET new == [params EXCEPT !.leftFreq = preset.leftFreq,
                            !.rightFreq = preset.rightFreq,
                            !.phaseDeg = preset.phase]
  IN /\ canvasRef
     /\ effectActive
     /\ effectQueued = "none"
     /\ ~audioEffectQueued
     /\ changes < MaxChanges
     /\ new # params
     /\ params' = new
     /\ effectQueued' =
          AnimationEffectAfter(effectQueued, {"leftFreq", "rightFreq", "phaseDeg"})
     /\ audioEffectQueued' =
          AudioEffectAfter(audioEffectQueued, {"leftFreq", "rightFreq", "phaseDeg"})
     /\ changes' = changes + 1
     /\ last' = [Quiet("PresetClick", 0) EXCEPT !.used = new]
     /\ UNCHANGED <<now, canvasRef, schedVars, effectActive, audioVars,
                    observerVars, probe>>

\* ------------------------------------------------------------------ host

\* The display refreshes and the host runs a scheduled callback: the render
\* closure that was passed to requestAnimationFrame.
Tick ==
  /\ nextHandle <= MaxHandles
  /\ \E c \in pending : \E ctxOk \in BOOLEAN :
       LET r == RenderResult(c.snap, ctxOk, pending \ {c})
       IN /\ ApplyRender(r)
          /\ last' = Observed("Tick", c.snap, TRUE, r, 0, windowFrames, windowStart)
          /\ framesSinceRefresh' = IF r.drew THEN 1 ELSE 0
          /\ ObserveWindow(r, windowFrames, windowStart)
  /\ UNCHANGED <<now, params, canvasRef, startTimeRef, effectActive,
                 effectQueued, changes, audioVars, audioEffectQueued, probe>>

\* Wall-clock time passes, by a clock step.  Queued effect work runs within
\* milliseconds of the commit that queued it, so at the granularity of the
\* clock steps no time passes while effect work is queued; in particular the
\* first render (which evaluates the useRef initial values) and the first
\* run of the effect read the same Date.now().
Advance ==
  /\ effectQueued = "none"
  /\ ~audioEffectQueued
  /\ \E d \in ClockSteps :
       /\ now + d <= MaxTime
       /\ now' = now + d
  /\ last' = Quiet("Advance", 0)
  /\ UNCHANGED <<params, canvasRef, schedVars, effectActive, effectQueued,
                 changes, audioVars, audioEffectQueued, observerVars, probe>>

\* --------------------------------------------------------- specification

\* No pure function is being probed.
NoProbe == [fn |-> "none"]

\* After the first render of the component: the refs hold their useRef
\* initial values, the canvas ref is attached and the effect is queued.
\* The state after construction, with parameter values p and probe pr.
Constructed(p, pr) ==
  /\ now = 0
  /\ params = p
  /\ canvasRef = TRUE
  /\ animationFrameRef = Null
  /\ startTimeRef = 0
  /\ frameCountRef = 0
  /\ lastFPSUpdateRef = 0
  /\ fps = 60
  /\ pending = {}
  /\ nextHandle = 1
  /\ effectActive = FALSE
  /\ effectQueued = "mount"
  /\ changes = 0
  /\ audioContextRef = Null
  /\ masterGainRef = Null
  /\ leftOscillatorRef = Null
  /\ rightOscillatorRef = Null
  /\ leftGainRef = Null
  /\ rightGainRef = Null
  /\ isPlaying = FALSE
  /\ isMuted = FALSE
  /\ volume = 3
  /\ audioEffectQueued = TRUE
  /\ oscConnected = {}
  /\ gainConnected = {}
  /\ gainChannel = <<>>
  /\ oscStartedAt = <<>>
  /\ oscFrequency = <<>>
  /\ gainValue = <<>>
  /\ oscRunning = {}
  /\ openContexts = {}
  /\ nextContext = 1
  /\ last = Quiet("Init", 0)
  /\ framesSinceRefresh = 0
  /\ lastPublishedAt = -1
  /\ windowFrames = 0
  /\ windowStart = 0
  /\ probe = pr

Init == Constructed(InitialParams, NoProbe)

Next ==
  \/ MountEffect
  \/ RerunEffect
  \/ Unmount
  \/ UnmountCleanup
  \/ \E f \in ParamNames : \E v \in ParamValues(f) : SetParam(f, v)
  \/ \E preset \in ClickedPresets : PresetClick(preset)
  \/ Tick
  \/ Advance
  \/ ContextsLeft(MaxContexts) /\ ToggleAudio
  \/ FlushAudioEffect

Spec == Init /\ [][Next]_vars

\* ------------------------------------------------------ the audio feature
\* The component with its audio controls and with a host that can fail in
\* the audio calls.  The audio code does not read Date.now(), so no time
\* passes, and the parameter changes are those of AudioParamNames.

AudioParamNames == {"leftFreq", "rightFreq", "showGrid"}

NextAudio ==
  \/ MountEffect
  \/ RerunEffect
  \/ Unmount
  \/ UnmountCleanup
  \/ \E f \in AudioParamNames : \E v \in ParamValues(f) : SetParam(f, v)
  \/ Tick
  \/ ContextsLeft(MaxContexts) /\ ToggleAudio
  \/ ContextsLeft(MaxContexts) /\ ToggleAudioFailing
  \/ FlushAudioEffect
  \/ FlushAudioEffectFailing
  \/ ToggleMute
  \/ \E v \in Volumes : SetVolume(v)

SpecAudio == Init /\ [][NextAudio]_vars

\* ------------------------------------------------- playing more than once
\* The audio feature with a host that lets a second context be created after
\* the first one was closed.  No tick is let through: the audio code is not
\* reached from render().

MaxOpened == 2

NextPlayback ==
  \/ MountEffect
  \/ RerunEffect
  \/ Unmount
  \/ UnmountCleanup
  \/ \E f \in AudioParamNames : \E v \in ParamValues(f) : SetParam(f, v)
  \/ ContextsLeft(MaxOpened) /\ ToggleAudio
  \/ ContextsLeft(MaxOpened) /\ ToggleAudioFailing
  \/ FlushAudioEffect
  \/ FlushAudioEffectFailing
  \/ ToggleMute
  \/ \E v \in Volumes : SetVolume(v)

SpecPlayback == Init /\ [][NextPlayback]_vars

\* ------------------------------------------------- the frequency ratio
\* getFrequencyRatio as a function of leftFreq and rightFreq: the component is
\* constructed about to call it on a pair of slider frequencies, and the one
\* action is the call.

\* The values of a frequency slider: min 100, max 5000, step 100.
SliderFreqs == {f \in FreqMin..FreqMax : (f - FreqMin) % FreqStep = 0}

\* Mutant of Gcd: the recursion stops after one step.
GcdOneStep(a, b) == IF b = 0 THEN a ELSE b

\* const gcd = (a, b) => b === 0 ? a : gcd(b, a % b)
RECURSIVE Gcd(_, _)
Gcd(a, b) == IF b = 0 THEN a ELSE Gcd(b, a % b)

\* getFrequencyRatio: both frequencies divided by their gcd, formatted by the
\* template string `${leftRatio}:${rightRatio}`.
GetFrequencyRatio(leftFreq, rightFreq) ==
  LET divisor == Gcd(leftFreq, rightFreq)
      leftRatio == leftFreq \div divisor
      rightRatio == rightFreq \div divisor
  IN [leftRatio |-> leftRatio, rightRatio |-> rightRatio,
      text |-> ToString(leftRatio) \o ":" \o ToString(rightRatio)]

\* The result slot of a call not made yet.
NoRatio == [leftRatio |-> 0, rightRatio |-> 0, text |-> ""]

RatioProbes ==
  [fn : {"getFrequencyRatio"}, leftFreq : SliderFreqs, rightFreq : SliderFreqs,
   called : {FALSE}, result : {NoRatio}]

CallGetFrequencyRatio ==
  /\ probe.fn = "getFrequencyRatio"
  /\ ~probe.called
  /\ probe' = [probe EXCEPT !.called = TRUE,
                            !.result = GetFrequencyRatio(probe.leftFreq,
                                                         probe.rightFreq)]
  /\ UNCHANGED <<now, params, canvasRef, schedVars, effectActive, effectQueued,
                 changes, audioVars, audioEffectQueued, last, observerVars>>

InitRatio == \E pr \in RatioProbes : Constructed(InitialParams, pr)

NextRatio == CallGetFrequencyRatio

SpecRatio == InitRatio /\ [][NextRatio]_vars

\* ------------------------------------------------ the pattern classifier
\* getPatternInfo as a function of leftFreq, rightFreq and phaseDeg: the
\* component is constructed about to call it on slider values, and the one
\* action is the call.

PhaseMin == 0
PhaseMax == 360
PhaseStep == 5

\* The values of the phase slider (min 0, max 360, step 5) and the phases of
\* the presets.
SliderPhases ==
  {d \in PhaseMin..PhaseMax : (d - PhaseMin) % PhaseStep = 0}
    \cup {preset.phase : preset \in PresetPatterns}

\* Math.max
Max(a, b) == IF a >= b THEN a ELSE b

\* Mutant of IsOctave: only rightFreq === 2 * leftFreq is tested.
IsOctaveOneWay(leftFreq, rightFreq) == rightFreq = 2 * leftFreq

\* rightFreq === 2 * leftFreq || leftFreq === 2 * rightFreq
IsOctave(leftFreq, rightFreq) ==
  rightFreq = 2 * leftFreq \/ leftFreq = 2 * rightFreq

\* getPatternInfo: the name and symmetry chosen by the if/else chain, and the
\* period computed from the reduced ratio.
GetPatternInfo(leftFreq, rightFreq, phaseDeg) ==
  LET class ==
        IF leftFreq = rightFreq
        THEN IF phaseDeg = 90 \/ phaseDeg = 270
             THEN <<"Circle", "Circular">>
             ELSE IF phaseDeg = 0 \/ phaseDeg = 180
                  THEN <<"Line", "Linear">>
                  ELSE <<"Ellipse", "Elliptical">>
        ELSE IF IsOctave(leftFreq, rightFreq)
             THEN <<"Figure-8", "Figure-8">>
             ELSE <<"Custom", "Complex">>
      divisor == Gcd(leftFreq, rightFreq)
  IN [patternName |-> class[1], symmetry |-> class[2],
      period |-> Max(leftFreq \div divisor, rightFreq \div divisor)]

\* The result slot of a call not made yet.
NoPatternInfo == [patternName |-> "", symmetry |-> "", period |-> 0]

PatternProbes ==
  [fn : {"getPatternInfo"}, leftFreq : SliderFreqs, rightFreq : SliderFreqs,
   phaseDeg : SliderPhases, called : {FALSE}, result : {NoPatternInfo}]

CallGetPatternInfo ==
  /\ probe.fn = "getPatternInfo"
  /\ ~probe.called
  /\ probe' = [probe EXCEPT !.called = TRUE,
                            !.result = GetPatternInfo(probe.leftFreq,
                                                      probe.rightFreq,
                                                      probe.phaseDeg)]
  /\ UNCHANGED <<now, params, canvasRef, schedVars, effectActive, effectQueued,
                 changes, audioVars, audioEffectQueued, last, observerVars>>

InitPattern == \E pr \in PatternProbes : Constructed(InitialParams, pr)

NextPattern == CallGetPatternInfo

SpecPattern == InitPattern /\ [][NextPattern]_vars

\* ------------------------------------------------------------ the sampler
\* generateLissajousPoints as a function of its inputs: the component is
\* constructed about to call it with parameter values, an elapsed time and a
\* number of points, and the one action is the call.

\* Elapsed times (Date.now() - startTimeRef.current, in ms) of a call.
ElapsedTimes == {0, 1, 249, 1000, 2002, 100003}

\* The parameter values of a call: every left frequency and phase of the
\* sliders, the lowest, a middle and the highest right frequency.
SamplerInputs ==
  [leftFreq : SliderFreqs, rightFreq : {FreqMin, 2500, FreqMax},
   phaseDeg : SliderPhases, animationSpeed : AnimationSpeeds,
   trailLength : {InitialParams.trailLength},
   showGrid : {TRUE}, showAxes : {TRUE}]

SamplerProbes ==
  [fn : {"generateLissajousPoints"}, p : SamplerInputs, elapsed : ElapsedTimes,
   numPoints : {1, MaxTrail}, called : {FALSE}, result : {<<>>}]

CallGenerateLissajousPoints ==
  /\ probe.fn = "generateLissajousPoints"
  /\ ~probe.called
  /\ probe' = [probe EXCEPT
                 !.called = TRUE,
                 !.result = GenerateLissajousPoints(probe.p, 0, probe.elapsed,
                                                    probe.numPoints)]
  /\ UNCHANGED <<now, params, canvasRef, schedVars, effectActive, effectQueued,
                 changes, audioVars, audioEffectQueued, last, observerVars>>

InitSampler == \E pr \in SamplerProbes : Constructed(InitialParams, pr)

NextSampler == CallGenerateLissajousPoints

SpecSampler == InitSampler /\ [][NextSampler]_vars

\* ------------------------------------------- the renderer on short trails
\* render() as a function of its inputs: the component is constructed with
\* parameter values drawn from RenderInputs, whose trailLength is a count
\* from 0 to MaxTrail, and then only mounts, ticks and lets time pass.

RenderInputs ==
  [leftFreq : LeftFreqs, rightFreq : {1000}, phaseDeg : PhaseDegs,
   animationSpeed : AnimationSpeeds, trailLength : 0..MaxTrail,
   showGrid : BOOLEAN, showAxes : BOOLEAN]

InitRender == \E p \in RenderInputs : Constructed(p, NoProbe)

NextRender ==
  \/ MountEffect
  \/ Tick
  \/ Advance

SpecRender == InitRender /\ [][NextRender]_vars

\* ----------------------------------------------------------------- claims

\* The scheduler is Running from the effect body to its cleanup.
Running == effectActive

\* C1: stopping the scheduler (the cleanup of the animation effect) leaves no
\* pending tick: in every reachable state, including before the first start
\* and after a stop, calling the cleanup once or twice in a row would leave
\* nothing pending; and while the scheduler is stopped no tick executes (no
\* render call, no frameCount increment, no fps publication).
C1_StopLeavesNoPendingTick ==
  /\ [](CleanupPending(pending) = {})
  /\ [](CleanupPending(CleanupPending(pending)) = {})
  /\ [](~Running => pending = {})
  /\ [][(~Running /\ ~Running') =>
          /\ ~last'.rendered
          /\ frameCountRef' = frameCountRef
          /\ fps' = fps]_vars

\* C1 witness: a cleanup has just cancelled a tick that was pending.
C1_Witness == last.op = "Cleanup" /\ last.cancelled = 1 /\ pending = {} /\ ~Running

\* C2: at most one refresh callback is pending in every reachable state, and
\* it is the one whose handle animationFrameRef holds.
C2_AtMostOnePendingTick ==
  /\ Cardinality(pending) <= 1
  /\ \A c \in pending : c.id = animationFrameRef

\* C2 witness: a re-run of the effect cancelled the pending tick of the
\* previous run and scheduled its own.
C2_Witness == last.op = "Rerun" /\ last.cancelled = 1 /\ Cardinality(pending) = 1

\* C3: every call of render() that draws uses, for all its passes, the
\* parameter values that are current when it executes.
C3_TickUsesCurrentParams == (last.rendered /\ last.drew) => last.used = params

\* C4: a parameter change, with the effect work it queues, leaves originTime,
\* frameCount, lastReportTime and the pending tick as they were: it neither
\* stops nor restarts the scheduler.
C4_ParamChangeOnlyPolled ==
  [][(params' # params \/ (effectQueued = "update" /\ effectQueued' = "none")) =>
       UNCHANGED <<startTimeRef, frameCountRef, lastFPSUpdateRef, pending>>]_vars

\* C5: while the scheduler is Running, every tick the host executes ends by
\* scheduling exactly one next tick.
C5_TickRearms ==
  (last.op = "Tick" /\ Running) => (last.armed = 1 /\ Cardinality(pending) = 1)

\* C6: a tick that finds the canvas attached but cannot acquire the 2D
\* context aborts without drawing and still leaves a next tick scheduled.
C6_SurfaceUnavailableRetries ==
  (last.op = "Tick" /\ canvasRef /\ ~last.drew) => pending # {}

\* C7: every start of the scheduler (the first run of the effect and every
\* re-run) records originTime = now and resets the frame-rate counter before
\* its first frame: that frame is counted as frame 1 of a window that starts
\* now, and a start that draws nothing leaves frameCount = 0 and
\* lastReportTime = now.
C7_StartResetsCounters ==
  last.op \in {"Mount", "Rerun"} =>
    /\ startTimeRef = now
    /\ IF last.drew
       THEN last.counted = 1 /\ last.window = 0
       ELSE frameCountRef = 0 /\ lastFPSUpdateRef = now

\* C8: the frame-rate value is published only by a render call that finds
\* now - lastReportTime > 1000 ms; two consecutive publications are more than
\* 1000 ms apart; and no step taken within 1000 ms of lastReportTime changes
\* the published value.
C8_PublishAtMostOncePerWindow ==
  /\ [](last.published => last.window > FpsWindow)
  /\ []((last.published /\ last.sincePublish >= 0) => last.sincePublish > FpsWindow)
  /\ [][(now - lastFPSUpdateRef <= FpsWindow) => fps' = fps]_vars

\* C8 witness: a second publication, more than a window after the first.
C8_Witness == last.published /\ last.sincePublish > FpsWindow /\ fps # 60

\* C9: a published value is round(frameCount * 1000 / (now - lastReportTime))
\* where frameCount is the number of frames rendered since the previous
\* publication or, for the first window of a run, since the scheduler start,
\* and the elapsed time is measured from that same instant; the publication
\* resets frameCount to 0 and lastReportTime to now.
C9_PublishedValue ==
  last.published =>
    /\ fps = Round(last.counted * 1000, last.window)
    /\ last.counted = last.framesInWindow
    /\ last.window = last.sinceWindowStart
    /\ frameCountRef = 0
    /\ lastFPSUpdateRef = now

\* C10: a frame is rendered and counted only by a display-refresh callback,
\* and at most one frame is rendered and counted from one refresh callback
\* to the next.
C10_OneFramePerRefresh ==
  /\ last.drew => last.viaCallback
  /\ framesSinceRefresh <= 1

\* The trail the latest call of render() drew, if it drew (its first
\* MaxTrail points): the points of its closure's parameter values.
DrawnTrail == TrailHead(last.used, startTimeRef, now)

\* The trail determined by the current ParameterSet and the elapsed time
\* now - originTime (its first MaxTrail points).
CurrentTrail == TrailHead(params, startTimeRef, now)

\* C11: the trail of a drawn frame is the function of the ParameterSet at
\* that tick and of the elapsed time now - originTime, whatever happened
\* before: it is the point sequence any run with these parameters, this
\* originTime and this now draws.
C11_TrailFromCurrentInputs == last.drew => DrawnTrail = CurrentTrail

\* The sampler returns exactly count points, the point of index i at
\* position i + 1, for every count from 0 to MaxTrail.
SamplerContract ==
  \A count \in 0..MaxTrail :
    LET points == GenerateLissajousPoints(params, startTimeRef, now, count)
    IN /\ Len(points) = count
       /\ \A i \in 0..(count - 1) :
            points[i + 1] = PointAt(params, now - startTimeRef, i)

\* C12: the sampler returns exactly count points in index order for every
\* count >= 0, and a tick that draws asks it for as many points as the
\* current trailLength.
C12_SamplerCount ==
  /\ SamplerContract
  /\ last.drew => last.numPoints = params.trailLength

\* C13: a tick whose point sequence has fewer than 2 points still clears and
\* draws the grid when showGrid and the axes when showAxes, skips the trail
\* and the marker, counts the frame and re-arms.
C13_ShortTrailTick ==
  (last.op = "Tick" /\ last.drew /\ last.numPoints < 2) =>
    /\ last.passes = <<"clear">> \o GridPass(last.used) \o AxesPass(last.used)
    /\ last.published \/ frameCountRef = last.counted
    /\ last.armed = 1
    /\ \E c \in pending : c.id = animationFrameRef

\* C13 witness: a tick with one point, grid and axes on, has drawn and
\* re-armed.
C13_Witness ==
  /\ last.op = "Tick" /\ last.drew /\ last.numPoints = 1
  /\ Len(DrawnTrail) = 1
  /\ last.passes = <<"clear", "grid", "axes">>
  /\ last.armed = 1 /\ pending # {}

\* a and b have no common divisor above 1.
Coprime(a, b) == \A d \in 2..a : ~(a % d = 0 /\ b % d = 0)

\* C20: for all slider frequencies the displayed ratio is "a:b" with
\* a = leftFreq / gcd and b = rightFreq / gcd: a and b are positive and
\* coprime, a * rightFreq = b * leftFreq, and 1000 and 2000 give "1:2".
C20_RatioInLowestTerms ==
  (probe.fn = "getFrequencyRatio" /\ probe.called) =>
    LET a == probe.result.leftRatio
        b == probe.result.rightRatio
    IN /\ a >= 1 /\ b >= 1
       /\ Coprime(a, b)
       /\ a * probe.rightFreq = b * probe.leftFreq
       /\ probe.result.text = ToString(a) \o ":" \o ToString(b)
       /\ (probe.leftFreq = 1000 /\ probe.rightFreq = 2000)
            => probe.result.text = "1:2"

\* C20 witness: the ratio of 1000 and 2000 has been computed and shown as 1:2.
C20_Witness ==
  /\ probe.fn = "getFrequencyRatio" /\ probe.called
  /\ probe.leftFreq = 1000 /\ probe.rightFreq = 2000
  /\ probe.result.text = "1:2"

\* The steps that are audio operations: start, stop and toggle (the play
\* button), mute, a volume change, a parameter update.
AudioOps == {"ToggleAudio", "ToggleMute", "SetVolume", "UpdateAudioParams"}

\* The steps that run the cleanup of the animation effect.
TeardownOps == {"Cleanup", "Rerun"}

\* C14: a teardown cancels the pending tick before it releases any audio
\* resource: of the statements the cleanup executes, cancelAnimationFrame
\* comes before stopAudio and close, it is executed whenever a tick is
\* pending, and once the audio is released no callback scheduled before
\* the cleanup is left to execute.
C14_CancelBeforeRelease ==
  last.op \in TeardownOps =>
    LET log == last.audio.cleanup
    IN /\ \E j \in DOMAIN log : log[j] = "stopAudio"
       /\ \A i, j \in DOMAIN log :
            (log[i] = "cancelAnimationFrame" /\ log[j] \in {"stopAudio", "close"})
              => i < j
       /\ last.cancelled > 0 => log[1] = "cancelAnimationFrame"
       /\ Cardinality(pending) = last.armed

\* C14 witness: an unmount cleanup with a tick pending and audio playing
\* cancelled the tick, then stopped the audio, then closed the context.
C14_Witness ==
  /\ last.op = "Cleanup" /\ last.cancelled = 1 /\ last.audio.wasPlaying
  /\ last.audio.cleanup = <<"cancelAnimationFrame", "stopAudio", "close">>
  /\ pending = {}

\* C15: after a teardown with audio active, both oscillators are stopped
\* and disconnected, both channel gain nodes are disconnected, the context
\* is closed, the refs to them are null and isPlaying is false.
C15_TeardownReleasesAudio ==
  (last.op \in TeardownOps /\ last.audio.wasPlaying) =>
    LET held == last.audio.held
    IN /\ {held.left, held.right} \cap oscRunning = {}
       /\ {held.left, held.right} \cap oscConnected = {}
       /\ {held.leftGain, held.rightGain} \cap gainConnected = {}
       /\ held.context \notin openContexts
       /\ leftOscillatorRef = Null /\ rightOscillatorRef = Null
       /\ leftGainRef = Null /\ rightGainRef = Null
       /\ audioContextRef = Null
       /\ ~isPlaying

\* C15 witness: an unmount cleanup found audio playing on two oscillators,
\* two gain nodes and an open context, and released them.
C15_Witness ==
  /\ last.op = "Cleanup" /\ last.audio.wasPlaying
  /\ last.audio.held.left # Null /\ last.audio.held.right # Null
  /\ last.audio.held.leftGain # Null /\ last.audio.held.rightGain # Null
  /\ last.audio.held.context # Null
  /\ oscRunning = {} /\ openContexts = {} /\ ~isPlaying

\* C16: after an audio call has thrown (in initializeAudio, startAudio or
\* updateAudioParams) the audio feature is stopped: isPlaying is false and
\* no oscillator is running.
C16_FailureStopsAudio ==
  (last.op \in AudioOps /\ last.audio.failed) =>
    (~isPlaying /\ oscRunning = {})

\* C17: an audio operation, whether it succeeds or throws, leaves the
\* scheduler as it was: still Running if it was, the same pending tick, the
\* same originTime and frame counter, and no restart queued.
C17_AudioLeavesSchedulerAlone ==
  [][last'.op \in AudioOps =>
       /\ UNCHANGED <<schedVars, effectActive, effectQueued>>
       /\ Running => (Running' /\ pending' = pending
                      /\ startTimeRef' = startTimeRef
                      /\ frameCountRef' = frameCountRef)]_vars

\* C17 witness: a parameter update threw while audio was playing, with the
\* scheduler Running and a tick pending.
C17_Witness ==
  /\ last.op = "UpdateAudioParams" /\ last.audio.failed /\ isPlaying
  /\ Running /\ Cardinality(pending) = 1

\* C18: a parameter update that runs while audio is playing (as after the
\* mute button) sets both channel gains to 0 when muted and to
\* volume * 0.1 when not, and neither it nor the mute button stops or
\* replaces the oscillators or changes isPlaying.
C18_MuteSilencesKeepsTones ==
  /\ [](( last.op = "UpdateAudioParams" /\ ~last.audio.failed /\ isPlaying) =>
          /\ gainValue[leftGainRef] = (IF isMuted THEN 0 ELSE volume * 10)
          /\ gainValue[rightGainRef] = (IF isMuted THEN 0 ELSE volume * 10)
          /\ {leftOscillatorRef, rightOscillatorRef} \subseteq oscRunning)
  /\ [][last'.op \in {"ToggleMute", "UpdateAudioParams"} =>
         UNCHANGED <<isPlaying, oscRunning, oscConnected, leftOscillatorRef,
                     rightOscillatorRef, leftGainRef, rightGainRef>>]_vars

\* C18 witness: audio is playing muted, the update has set both gains to 0
\* and both oscillators are still running.
C18_Witness ==
  /\ last.op = "UpdateAudioParams" /\ ~last.audio.failed
  /\ isPlaying /\ isMuted
  /\ gainValue[leftGainRef] = 0 /\ gainValue[rightGainRef] = 0
  /\ {leftOscillatorRef, rightOscillatorRef} \subseteq oscRunning

\* Audio is playing on oscillators whose frequency is not the current
\* leftFreq or rightFreq: a frequency has changed and the effects queued by
\* the change have not run yet.
FrequencyChangePending ==
  /\ isPlaying
  /\ leftOscillatorRef # Null /\ rightOscillatorRef # Null
  /\ \/ oscFrequency[leftOscillatorRef] # params.leftFreq
     \/ oscFrequency[rightOscillatorRef] # params.rightFreq

\* C19: when leftFreq or rightFreq has changed while audio is playing, the
\* effects the change queued leave the audio playing on the same
\* oscillators, with their frequencies set to the new values.
C19_FrequencyChangeKeepsPlaying ==
  [][(FrequencyChangePending /\ last'.op \in {"Rerun", "UpdateAudioParams"}) =>
       /\ isPlaying'
       /\ leftOscillatorRef' = leftOscillatorRef
       /\ rightOscillatorRef' = rightOscillatorRef
       /\ {leftOscillatorRef, rightOscillatorRef} \subseteq oscRunning'
       /\ oscFrequency'[leftOscillatorRef] = params.leftFreq
       /\ oscFrequency'[rightOscillatorRef] = params.rightFreq]_vars


\* The classification returned by a call of getPatternInfo that was made.
Classified == <<probe.result.patternName, probe.result.symmetry>>

PatternCalled == probe.fn = "getPatternInfo" /\ probe.called

\* C21: getPatternInfo classifies equal frequencies as Circle/Circular at
\* phase 90 or 270, as Line/Linear at phase 0 or 180 and as Ellipse/Elliptical
\* at any other phase; frequencies of which one is exactly twice the other
\* (either way) as Figure-8/Figure-8 for every phase; and every other input as
\* Custom/Complex.  In particular (1000, 1000, 90) is Circle, (1000, 1000, 0)
\* is Line and (1000, 2000, 0) is Figure-8.
C21_PatternClassification ==
  PatternCalled =>
    LET l == probe.leftFreq
        r == probe.rightFreq
        ph == probe.phaseDeg
    IN /\ (l = r /\ ph \in {90, 270}) => Classified = <<"Circle", "Circular">>
       /\ (l = r /\ ph \in {0, 180}) => Classified = <<"Line", "Linear">>
       /\ (l = r /\ ph \notin {0, 90, 180, 270})
            => Classified = <<"Ellipse", "Elliptical">>
       /\ (l # r /\ (r = 2 * l \/ l = 2 * r))
            => Classified = <<"Figure-8", "Figure-8">>
       /\ (l # r /\ r # 2 * l /\ l # 2 * r)
            => Classified = <<"Custom", "Complex">>
       /\ (l = 1000 /\ r = 1000 /\ ph = 90) => probe.result.patternName = "Circle"
       /\ (l = 1000 /\ r = 1000 /\ ph = 0) => probe.result.patternName = "Line"
       /\ (l = 1000 /\ r = 2000 /\ ph = 0)
            => probe.result.patternName = "Figure-8"

\* C21 witness: a call with the left frequency twice the right one, at a phase
\* that would be a circle for equal frequencies, classified as Figure-8.
C21_Witness ==
  /\ PatternCalled
  /\ probe.leftFreq = 2 * probe.rightFreq
  /\ probe.phaseDeg = 90
  /\ Classified = <<"Figure-8", "Figure-8">>


\* The code of the sine value 1 (the sine of a quarter turn); -SinOne codes
\* the sine value -1.
SinOne == TurnUnits \div 4

\* The coordinate c lies in [-1, 1].
InUnitRange(c) == -SinOne <= c /\ c <= SinOne

SamplerCalled == probe.fn = "generateLissajousPoints" /\ probe.called

\* C22: every coordinate x and y of every point the sampler returns lies in
\* [-1, 1], for every frequency, phase, speed and time input.
C22_CoordinatesInUnitRange ==
  SamplerCalled =>
    \A i \in 1..Len(probe.result) :
      InUnitRange(probe.result[i].x) /\ InUnitRange(probe.result[i].y)

\* C22 witness: a call that returned MaxTrail points, one of them with a
\* coordinate of exactly 1 and one with a negative coordinate.
C22_Witness ==
  /\ SamplerCalled
  /\ Len(probe.result) = MaxTrail
  /\ \E i \in 1..Len(probe.result) : probe.result[i].y = SinOne
  /\ \E i \in 1..Len(probe.result) : probe.result[i].x < 0


\* The fixed order of the passes of one frame.
PassOrder == <<"clear", "grid", "axes", "trail", "marker">>

\* The position of a pass in the fixed order.
PassRank(pass) == CHOOSE k \in 1..Len(PassOrder) : PassOrder[k] = pass

\* The passes were issued in the fixed order, none of them twice.
InPassOrder(passes) ==
  \A i, j \in 1..Len(passes) : i < j => PassRank(passes[i]) < PassRank(passes[j])

\* The pass was issued.
Issued(passes, pass) == \E i \in 1..Len(passes) : passes[i] = pass

\* C23: within every call of render() that draws, the passes are issued in
\* the fixed order clear, grid, axes, trail, leading marker; the clear pass is
\* always the first; the grid pass is issued exactly when the showGrid the
\* call was made with is true and the axes pass exactly when its showAxes is
\* true; the marker follows the trail.
C23_PassOrder ==
  last.drew =>
    /\ Len(last.passes) >= 1 /\ last.passes[1] = "clear"
    /\ InPassOrder(last.passes)
    /\ Issued(last.passes, "grid") <=> last.used.showGrid
    /\ Issued(last.passes, "axes") <=> last.used.showAxes
    /\ Issued(last.passes, "trail") <=> Issued(last.passes, "marker")
    /\ last.numPoints >= 2 => Issued(last.passes, "trail")

\* C23 witness: a tick, after showGrid was switched off, that drew clear,
\* axes, trail and marker.
C23_Witness ==
  /\ last.op = "Tick" /\ last.drew
  /\ ~params.showGrid /\ ~last.used.showGrid
  /\ last.passes = <<"clear", "axes", "trail", "marker">>


\* No effect is waiting to run.
EffectsRun == effectQueued = "none" /\ ~audioEffectQueued

\* The running oscillator n sounds the tone of frequency freq on the merger
\* input channel: it is the oscillator held in ref, tuned to freq and
\* connected, and the channel gain node held with it feeds that input.
Sounds(n, ref, gainRef, freq, channel) ==
  /\ n = ref
  /\ n \in oscConnected
  /\ oscFrequency[n] = freq
  /\ gainRef \in gainConnected
  /\ gainRef \in DOMAIN gainChannel
  /\ gainChannel[gainRef] = channel

\* C24: in every state in which oscillators are running and no effect is
\* waiting to run, the running oscillators are the two held in the refs, the
\* left one at the current leftFreq and routed to merger input 0, the right
\* one at the current rightFreq and routed to merger input 1.
C24_AudioMatchesPattern ==
  (oscRunning # {} /\ EffectsRun) =>
    /\ leftOscillatorRef \in oscRunning
    /\ rightOscillatorRef \in oscRunning
    /\ \A n \in oscRunning :
         \/ Sounds(n, leftOscillatorRef, leftGainRef, params.leftFreq, 0)
         \/ Sounds(n, rightOscillatorRef, rightGainRef, params.rightFreq, 1)

\* C24 witness: after the left frequency was changed, the oscillators run at
\* two different frequencies, the current ones.
C24_Witness ==
  /\ EffectsRun
  /\ isPlaying
  /\ leftOscillatorRef \in oscRunning /\ rightOscillatorRef \in oscRunning
  /\ params.leftFreq # InitialParams.leftFreq
  /\ params.leftFreq # params.rightFreq
  /\ oscFrequency[leftOscillatorRef] = params.leftFreq
  /\ oscFrequency[rightOscillatorRef] = params.rightFreq
  /\ gainChannel[leftGainRef] = 0 /\ gainChannel[rightGainRef] = 1


\* The phase, in degrees, by which the tone of the oscillator `left` leads
\* the tone of `right`, measured at the start of `right`: an oscillator
\* begins its cycle at phase 0 when it starts, so the lead is the part of a
\* cycle the left tone has run by then (below zero, taken modulo a turn, if
\* it starts later).  Frequencies are whole multiples of FreqStep.
StartPhaseLead(left, right) ==
  (((360 * FreqStep) \div 1000) * (oscFrequency[left] \div FreqStep)
     * (oscStartedAt[right] - oscStartedAt[left])) % 360

\* startAudio has just started the pair held in the refs.
AudioJustStarted ==
  /\ last.op = "ToggleAudio"
  /\ isPlaying
  /\ leftOscillatorRef \in oscRunning
  /\ rightOscillatorRef \in oscRunning

\* C25: when audio starts, the left tone leads the right tone by the
\* configured phase offset phaseDeg.
C25_StartPhaseOffset ==
  AudioJustStarted =>
    StartPhaseLead(leftOscillatorRef, rightOscillatorRef) = params.phaseDeg % 360


\* C26: at most one oscillator pair is started and not yet stopped, and it
\* is the pair held in the refs; whenever isPlaying is false, no oscillator is
\* running.
C26_OnePairRunning ==
  /\ oscRunning \subseteq {leftOscillatorRef, rightOscillatorRef}
  /\ oscRunning # {} =>
       /\ oscRunning = {leftOscillatorRef, rightOscillatorRef}
       /\ leftOscillatorRef # rightOscillatorRef
  /\ ~isPlaying => oscRunning = {}

\* C27: at most one audio context is open at any time and it is the one
\* held; a context is created only by the play button with none held and
\* none open; a held context is closed by the step that clears its ref; and
\* a tone pair that startAudio has started is wired to the master gain node
\* of the context held.
C27_OneContextOpen ==
  /\ [](Cardinality(openContexts) <= 1)
  /\ [](openContexts \subseteq {audioContextRef})
  /\ [][openContexts' \ openContexts # {} =>
         /\ audioContextRef = Null
         /\ openContexts = {}
         /\ last'.op = "ToggleAudio"
         /\ openContexts' = {audioContextRef'}]_vars
  /\ [][(audioContextRef # Null /\ audioContextRef' = Null) =>
         audioContextRef \notin openContexts']_vars
  /\ []((last.op = "ToggleAudio" /\ leftOscillatorRef \in oscRunning) =>
         /\ audioContextRef \in openContexts
         /\ masterGainRef = audioContextRef)


\* C26 witness: after a first pair was played and torn down with its
\* context, a second pair is running, held in the refs, with isPlaying true.
C26_Witness ==
  /\ isPlaying
  /\ nextContext = 3
  /\ leftOscillatorRef # Null /\ rightOscillatorRef # Null
  /\ oscRunning = {leftOscillatorRef, rightOscillatorRef}

\* C27 witness: the play button has created a second context, the first one
\* having been closed, and started a pair wired to its master gain node.
C27_Witness ==
  /\ last.op = "ToggleAudio"
  /\ leftOscillatorRef \in oscRunning
  /\ audioContextRef = 2
  /\ openContexts = {2}
  /\ masterGainRef = 2

====
